---------------------------- MODULE Spec2Model ----------------------------
(***************************************************************************)
(* The pricing model engine of src/app.py (a Streamlit script): the price  *)
(* function, the revenue function, their finite-difference derivatives,    *)
(* the point evaluation with its try/except (lines 115-138), the curve     *)
(* sampling with its try/except (lines 190-204), and the session that      *)
(* feeds them (PARAM_RANGES, the sidebar inputs, the preset buttons).      *)
(*                                                                         *)
(* Numbers.  A Python float is modelled as a decimal fixed-point number:   *)
(* an integer count of units of 1/Scale, every operation rounding its      *)
(* result to a unit as a float operation rounds to a float.  IEEE          *)
(* infinities and NaN, Python's complex results and raised exceptions are  *)
(* separate kinds of value.  A value carries whether it is a numpy scalar  *)
(* (np = TRUE: an element of np.linspace, a result of np.exp, or anything  *)
(* computed from one) or a plain Python float (np = FALSE): Python raises  *)
(* ZeroDivisionError where numpy returns inf or nan with a RuntimeWarning. *)
(***************************************************************************)
EXTENDS Integers, Sequences, FiniteSets

VARIABLES
    params,        \* st.session_state.params: parameter name -> float (units)
    warn_filter,   \* the process's warning filter for numpy RuntimeWarnings
    result,        \* what the last point evaluation left (lines 115-138)
    curve,         \* what the last curve sampling left (lines 190-204)
    prev,          \* what the call before this one left (its point
                   \* evaluation and its curve), while no parameter was
                   \* edited since
    event,         \* the user's input or click this run answers
    pc,            \* position of the script run
    reruns         \* interactions (reruns of the script) so far

vars == <<params, warn_filter, result, curve, prev, event, pc, reruns>>

-----------------------------------------------------------------------------
(* Fixed-point arithmetic on units of 1/Scale, within 32-bit integers.     *)

\* Units per 1.0: four decimals.
Scale == 10000

Abs(i) == IF i < 0 THEN -i ELSE i

\* a*b/Scale rounded toward zero; the product is split so that no partial
\* product leaves 32 bits.
FxMul(a, b) ==
    LET x  == Abs(a)
        y  == Abs(b)
        xh == x \div Scale
        xl == x % Scale
        yh == y \div Scale
        yl == y % Scale
        m  == xh * yh * Scale + xh * yl + xl * yh + (xl * yl) \div Scale
    IN  IF (a < 0) # (b < 0) THEN -m ELSE m

\* a/b in units, b # 0, rounded toward zero: long division, four decimals.
FxDiv(a, b) ==
    LET x  == Abs(a)
        y  == Abs(b)
        q0 == x \div y
        r0 == x % y
        d1 == (r0 * 10) \div y
        r1 == (r0 * 10) % y
        d2 == (r1 * 10) \div y
        r2 == (r1 * 10) % y
        d3 == (r2 * 10) \div y
        r3 == (r2 * 10) % y
        d4 == (r3 * 10) \div y
        m  == q0 * Scale + d1 * 1000 + d2 * 100 + d3 * 10 + d4
    IN  IF (a < 0) # (b < 0) THEN -m ELSE m

RECURSIVE Pow2(_)
Pow2(k) == IF k <= 0 THEN 1 ELSE 2 * Pow2(k - 1)

\* e^y for y in units: y = k*ln2 + f with 0 <= f < ln2, e^f by its Taylor
\* series, then scaled by 2^k.
FxExp(y) ==
    IF y < -12 * Scale THEN 0
    ELSE
    LET ln2 == 6931
        k   == y \div ln2
        f   == y - k * ln2
        t1  == f
        t2  == (t1 * f) \div (2 * Scale)
        t3  == (t2 * f) \div (3 * Scale)
        t4  == (t3 * f) \div (4 * Scale)
        t5  == (t4 * f) \div (5 * Scale)
        t6  == (t5 * f) \div (6 * Scale)
        m   == Scale + t1 + t2 + t3 + t4 + t5 + t6
    IN  IF k >= 0 THEN m * Pow2(k) ELSE m \div Pow2(-k)

\* The k with 2^k * Scale <= x < 2^(k+1) * Scale, for x >= Scale.
RECURSIVE Log2Floor(_)
Log2Floor(x) == IF x < 2 * Scale THEN 0 ELSE 1 + Log2Floor(x \div 2)

\* The k with Scale <= x * 2^k, for 0 < x < Scale.
RECURSIVE Log2Up(_)
Log2Up(x) == IF x >= Scale THEN 0 ELSE 1 + Log2Up(2 * x)

\* ln x for x > 0 in units: x = m * 2^k with 1 <= m < 2, and
\* ln m = 2 atanh((m-1)/(m+1)) by its series.
FxLn(x) ==
    LET ln2 == 6931
        up  == x < Scale
        k   == IF up THEN Log2Up(x) ELSE Log2Floor(x)
        m   == IF up THEN x * Pow2(k) ELSE x \div Pow2(k)
        z   == ((m - Scale) * Scale) \div (m + Scale)
        z2  == (z * z) \div Scale
        z3  == (z * z2) \div Scale
        z5  == (z3 * z2) \div Scale
        z7  == (z5 * z2) \div Scale
        s   == z + z3 \div 3 + z5 \div 5 + z7 \div 7
    IN  (IF up THEN -k ELSE k) * ln2 + 2 * s

\* x^n for an integer n >= 0 by repeated multiplication.
RECURSIVE FxIntPow(_, _)
FxIntPow(x, n) == IF n = 0 THEN Scale ELSE FxMul(x, FxIntPow(x, n - 1))

\* x^r for x > 0 (or x = 0 and r >= 0), r in units: exact products for an
\* integer r, e^(r ln x) otherwise.
FxPow(x, r) ==
    IF r % Scale = 0
    THEN IF r >= 0 THEN FxIntPow(x, r \div Scale)
         ELSE FxDiv(Scale, FxIntPow(x, (-r) \div Scale))
    ELSE IF x = 0 THEN 0
    ELSE FxExp(FxMul(r, FxLn(x)))

\* sin(a) and cos(a) for 0 <= a <= pi/2 in units, by their Taylor series.
FxSinQ(a) ==
    LET a2 == (a * a) \div Scale
        t3 == (a * a2) \div (6 * Scale)
        t5 == (t3 * a2) \div (20 * Scale)
        t7 == (t5 * a2) \div (42 * Scale)
        t9 == (t7 * a2) \div (72 * Scale)
    IN  a - t3 + t5 - t7 + t9

FxCosQ(a) ==
    LET a2 == (a * a) \div Scale
        t2 == a2 \div 2
        t4 == (t2 * a2) \div (12 * Scale)
        t6 == (t4 * a2) \div (30 * Scale)
        t8 == (t6 * a2) \div (56 * Scale)
    IN  Scale - t2 + t4 - t6 + t8

\* <<cos(pi r), sin(pi r)>> for r in units: the argument of (-1)^r.
FxCisPi(r) ==
    LET t    == r % (2 * Scale)
        half == t >= Scale
        u    == IF half THEN t - Scale ELSE t
        refl == 2 * u > Scale
        v    == IF refl THEN Scale - u ELSE u
        a    == (31416 * v) \div Scale
        c0   == IF refl THEN -FxCosQ(a) ELSE FxCosQ(a)
        s0   == FxSinQ(a)
    IN  IF half THEN <<-c0, -s0>> ELSE <<c0, s0>>

-----------------------------------------------------------------------------
(* Values: Python floats and numpy scalars.                                *)

Fin(np, v)      == [np |-> np, k |-> "fin", re |-> v, im |-> 0]
Inf(s)          == [np |-> TRUE, k |-> "inf", re |-> s, im |-> 0]
NaN             == [np |-> TRUE, k |-> "nan", re |-> 0, im |-> 0]
Cplx(np, a, b)  == [np |-> np, k |-> "cplx", re |-> a, im |-> b]
\* An exception raised while the expression was evaluated.
Raise           == [np |-> FALSE, k |-> "raise", re |-> 0, im |-> 0]

Sign(i) == IF i < 0 THEN -1 ELSE 1

\* numpy reports a floating-point error as a RuntimeWarning and returns v;
\* under a warning filter of "error" the warning is raised as an exception.
Warn(v) == IF warn_filter = "error" THEN Raise ELSE v

\* -a
Neg(a) ==
    CASE a.k = "raise" -> Raise
      [] a.k = "nan"   -> NaN
      [] a.k = "inf"   -> Inf(-a.re)
      [] OTHER         -> [a EXCEPT !.re = -a.re, !.im = -a.im]

\* a + b
Add(a, b) ==
    LET np == a.np \/ b.np IN
    IF a.k = "raise" \/ b.k = "raise" THEN Raise
    ELSE IF a.k = "nan" \/ b.k = "nan" THEN NaN
    ELSE CASE a.k = "fin" /\ b.k = "fin"  -> Fin(np, a.re + b.re)
           [] a.k = "cplx" /\ b.k \in {"fin", "cplx"}
                                          -> Cplx(np, a.re + b.re, a.im + b.im)
           [] a.k = "fin" /\ b.k = "cplx" -> Cplx(np, a.re + b.re, b.im)
           [] a.k = "inf" /\ b.k = "inf"  ->
                 IF a.re = b.re THEN Inf(a.re) ELSE Warn(NaN)
           [] a.k = "inf" /\ b.k = "fin"  -> Inf(a.re)
           [] a.k = "fin" /\ b.k = "inf"  -> Inf(b.re)

\* a - b
Sub(a, b) == Add(a, Neg(b))

\* a * b
Mul(a, b) ==
    LET np == a.np \/ b.np IN
    IF a.k = "raise" \/ b.k = "raise" THEN Raise
    ELSE IF a.k = "nan" \/ b.k = "nan" THEN NaN
    ELSE CASE a.k = "fin" /\ b.k = "fin"  -> Fin(np, FxMul(a.re, b.re))
           [] a.k = "cplx" /\ b.k = "fin" ->
                 Cplx(np, FxMul(a.re, b.re), FxMul(a.im, b.re))
           [] a.k = "fin" /\ b.k = "cplx" ->
                 Cplx(np, FxMul(a.re, b.re), FxMul(a.re, b.im))
           [] a.k = "inf" /\ b.k = "inf"  -> Inf(a.re * b.re)
           [] a.k = "inf" /\ b.k = "fin"  ->
                 IF b.re = 0 THEN Warn(NaN) ELSE Inf(a.re * Sign(b.re))
           [] a.k = "fin" /\ b.k = "inf"  ->
                 IF a.re = 0 THEN Warn(NaN) ELSE Inf(b.re * Sign(a.re))

\* A zero divisor.
IsZero(b) == b.k \in {"fin", "cplx"} /\ b.re = 0 /\ b.im = 0

\* a / b with a zero divisor b.  Two Python operands: ZeroDivisionError.
\* A numpy operand: x/0 is +-inf with a "divide by zero" warning, 0/0 is
\* nan with an "invalid value" warning.
DivByZero(a, b) ==
    IF ~(a.np \/ b.np) THEN Raise
    ELSE CASE a.k = "fin" /\ a.re = 0 -> Warn(NaN)
           [] a.k = "fin" /\ a.re # 0 -> Warn(Inf(Sign(a.re)))
           [] a.k = "inf"             -> Inf(a.re)

\* a / b
TrueDiv(a, b) ==
    LET np == a.np \/ b.np IN
    IF a.k = "raise" \/ b.k = "raise" THEN Raise
    ELSE IF a.k = "nan" \/ b.k = "nan" THEN NaN
    ELSE IF IsZero(b) THEN DivByZero(a, b)
    ELSE CASE a.k = "fin" /\ b.k = "fin"  -> Fin(np, FxDiv(a.re, b.re))
           [] a.k = "cplx" /\ b.k = "fin" ->
                 Cplx(np, FxDiv(a.re, b.re), FxDiv(a.im, b.re))
           [] a.k = "fin" /\ b.k = "cplx" ->
                 Cplx(np,
                      FxDiv(FxMul(a.re, b.re),
                            FxMul(b.re, b.re) + FxMul(b.im, b.im)),
                      -FxDiv(FxMul(a.re, b.im),
                             FxMul(b.re, b.re) + FxMul(b.im, b.im)))
           [] a.k = "inf" /\ b.k = "inf"  -> Warn(NaN)
           [] a.k = "inf" /\ b.k = "fin"  -> Inf(a.re * Sign(b.re))
           [] a.k = "fin" /\ b.k = "inf"  -> Fin(np, 0)

\* a ** r, r a Python float.  Python: 0 to a negative power raises
\* ZeroDivisionError, a negative base to a fractional power is complex.
\* numpy: inf resp. nan, each with a warning.
Pow(a, r) ==
    LET whole == r.re % Scale = 0
        odd   == whole /\ (r.re \div Scale) % 2 = 1
    IN
    CASE a.k = "raise" \/ r.k = "raise"   -> Raise
      [] a.k = "fin" /\ a.re = 0 /\ r.re < 0 ->
            IF a.np THEN Warn(Inf(1)) ELSE Raise
      [] a.k = "fin" /\ a.re < 0 /\ ~whole ->
            IF a.np THEN Warn(NaN)
            ELSE LET m == FxPow(-a.re, r.re)
                     c == FxCisPi(r.re)
                 IN  Cplx(FALSE, FxMul(m, c[1]), FxMul(m, c[2]))
      [] a.k = "fin" /\ a.re < 0 /\ whole ->
            Fin(a.np, IF odd THEN -FxPow(-a.re, r.re) ELSE FxPow(-a.re, r.re))
      [] a.k = "fin" /\ a.re >= 0 /\ (a.re > 0 \/ r.re >= 0) ->
            Fin(a.np, FxPow(a.re, r.re))
      [] a.k = "nan"                      ->
            IF r.re = 0 THEN Fin(TRUE, Scale) ELSE NaN
      [] a.k = "inf" /\ a.re > 0          ->
            IF r.re > 0 THEN Inf(1)
            ELSE IF r.re = 0 THEN Fin(TRUE, Scale) ELSE Fin(TRUE, 0)

\* np.exp(a): a numpy scalar.
np_exp(a) ==
    CASE a.k = "raise" -> Raise
      [] a.k = "fin"   -> Fin(TRUE, FxExp(a.re))
      [] a.k = "nan"   -> NaN
      [] a.k = "inf"   -> IF a.re > 0 THEN Inf(1) ELSE Fin(TRUE, 0)

\* a < 0 and a > 0.  A comparison with nan is false; numpy orders complex
\* numbers by real part, then imaginary part.
LtZero(a) ==
    CASE a.k = "nan"  -> FALSE
      [] a.k = "cplx" -> a.re < 0 \/ (a.re = 0 /\ a.im < 0)
      [] OTHER        -> a.re < 0

GtZero(a) ==
    CASE a.k = "nan"  -> FALSE
      [] a.k = "cplx" -> a.re > 0 \/ (a.re = 0 /\ a.im > 0)
      [] OTHER        -> a.re > 0

-----------------------------------------------------------------------------
(* The calculation functions, lines 81-113.                                *)

\* The finite-difference step, the default of the parameter h: 0.1 here
\* (the smallest step whose square is still a whole number of units
\* times 100), 1e-5 in the source.
h == 1000

\* A parameter read from the dict: a Python float.
Param(p, name) == Fin(FALSE, p[name])

\* P(N) = P_min + K*exp(-q*(N/N0)) + C/(1+(N/N1)^r)
calculate_price(N, p) ==
    LET P_min == Param(p, "P_min")
        K     == Param(p, "K")
        q     == Param(p, "q")
        N0    == Param(p, "N0")
        C     == Param(p, "C")
        r     == Param(p, "r")
        N1    == Param(p, "N1")
        exp_part        == Mul(K, np_exp(Mul(Neg(q), TrueDiv(N, N0))))
        hyperbolic_part ==
            TrueDiv(C, Add(Fin(FALSE, Scale), Pow(TrueDiv(N, N1), r)))
    IN  Add(Add(P_min, exp_part), hyperbolic_part)

\* P'(N) by central differences
calculate_price_derivative(N, p) ==
    TrueDiv(Sub(calculate_price(Add(N, Fin(FALSE, h)), p),
                calculate_price(Sub(N, Fin(FALSE, h)), p)),
            Mul(Fin(FALSE, 2 * Scale), Fin(FALSE, h)))

\* The revenue taken with the population one step further on.
calculate_income_shifted(N, p) ==
    Mul(calculate_price(N, p), Add(N, Fin(FALSE, h)))

\* I(N) = P(N) * N
calculate_income(N, p) == Mul(calculate_price(N, p), N)

\* I'(N) by central differences
calculate_income_derivative(N, p) ==
    TrueDiv(Sub(calculate_income(Add(N, Fin(FALSE, h)), p),
                calculate_income(Sub(N, Fin(FALSE, h)), p)),
            Mul(Fin(FALSE, 2 * Scale), Fin(FALSE, h)))

\* I''(N) by central differences
calculate_income_second_derivative(N, p) ==
    TrueDiv(Add(Sub(calculate_income(Add(N, Fin(FALSE, h)), p),
                    Mul(Fin(FALSE, 2 * Scale), calculate_income(N, p))),
                calculate_income(Sub(N, Fin(FALSE, h)), p)),
            Pow(Fin(FALSE, h), Fin(FALSE, 2 * Scale)))

-----------------------------------------------------------------------------
(* The point evaluation, lines 115-138.                                    *)

ParamNames == {"P_min", "K", "q", "N0", "C", "r", "N1", "N"}

NoResult == [set |-> FALSE]

\* Default values that leave the amplitude K out of the price.
PointFallbackMinOnly(p) ==
    [ current_price  |-> Param(p, "P_min"),
      current_income |-> Mul(Param(p, "P_min"), Param(p, "N")),
      dP_dN          |-> Fin(FALSE, 0),
      dI_dN          |-> Fin(FALSE, 0),
      d2I_dN2        |-> Fin(FALSE, 0),
      error          |-> TRUE ]

\* The except branch, lines 126-133: st.error, then the default values.
PointFallback(p) ==
    LET N == Param(p, "N") IN
    [ current_price  |-> Add(Param(p, "P_min"), Param(p, "K")),
      current_income |-> Mul(Add(Param(p, "P_min"), Param(p, "K")), N),
      dP_dN          |-> Fin(FALSE, 0),
      dI_dN          |-> Fin(FALSE, 0),
      d2I_dN2        |-> Fin(FALSE, 0),
      error          |-> TRUE ]

\* The five assignments without a try block around them.
TryPointUncaught(cp, ci, dP, dI, d2I, fallback) ==
    [ current_price  |-> cp,
      current_income |-> ci,
      dP_dN          |-> dP,
      dI_dN          |-> dI,
      d2I_dN2        |-> d2I,
      error          |-> FALSE ]

\* The five values of the try block in the order of their assignments;
\* the first exception leaves all five to the except branch.
TryPoint(cp, ci, dP, dI, d2I, fallback) ==
    IF cp.k = "raise" THEN fallback
    ELSE IF ci.k = "raise" THEN fallback
    ELSE IF dP.k = "raise" THEN fallback
    ELSE IF dI.k = "raise" THEN fallback
    ELSE IF d2I.k = "raise" THEN fallback
    ELSE [ current_price  |-> cp,
           current_income |-> ci,
           dP_dN          |-> dP,
           dI_dN          |-> dI,
           d2I_dN2        |-> d2I,
           error          |-> FALSE ]

\* The try/except of lines 120-133.
PointValues(p) ==
    TryPoint(calculate_price(Param(p, "N"), p),
             calculate_income(Param(p, "N"), p),
             calculate_price_derivative(Param(p, "N"), p),
             calculate_income_derivative(Param(p, "N"), p),
             calculate_income_second_derivative(Param(p, "N"), p),
             PointFallback(p))

\* The first condition read as "the price does not rise".
cond1_not_rising(dP_dN) == ~GtZero(dP_dN)

\* Lines 135-138: the three conditions.
cond1(dP_dN)   == LtZero(dP_dN)
cond2(dI_dN)   == GtZero(dI_dN)
cond3(d2I_dN2) == LtZero(d2I_dN2)

\* What the run holds after lines 115-138, called with parameters p.
PointResult(p, v) ==
    [ set            |-> TRUE,
      args           |-> p,
      current_price  |-> v.current_price,
      current_income |-> v.current_income,
      dP_dN          |-> v.dP_dN,
      dI_dN          |-> v.dI_dN,
      d2I_dN2        |-> v.d2I_dN2,
      error          |-> v.error,
      cond1          |-> cond1(v.dP_dN),
      cond2          |-> cond2(v.dI_dN),
      cond3          |-> cond3(v.d2I_dN2) ]

\* Lines 115-138 as a whole.
PointEvaluation(p) == PointResult(p, PointValues(p))

\* The parameters if the finite differences stepped N in place.
ParamsAfterEvaluationShifted(p) == [p EXCEPT !.N = p.N + h]

\* The parameters after the point evaluation: it assigns none of them.
ParamsAfterEvaluation(p) == p

-----------------------------------------------------------------------------
(* The curve sampling, lines 190-204.                                      *)

\* np.linspace(1, 200, 400)
N_low  == 1
N_high == 200
count  == 400

\* np.linspace(start, stop, num, endpoint=False)
linspace_open(start, stop, num) ==
    [i \in 1..num |->
        Fin(TRUE, start * Scale + ((i - 1) * (stop - start) * Scale) \div num)]

\* np.linspace(start, stop, num): start + i*(stop-start)/(num-1) for
\* i = 0..num-1, the last element set to stop; numpy scalars.
linspace(start, stop, num) ==
    [i \in 1..num |->
        IF i = num THEN Fin(TRUE, stop * Scale)
        ELSE Fin(TRUE, start * Scale
                       + ((i - 1) * (stop - start) * Scale) \div (num - 1))]

N_values == linspace(N_low, N_high, count)

NoCurve == [set |-> FALSE]

\* The except branch, lines 197-204: st.error, then the default data.
FlatPrice(p) == Add(Param(p, "P_min"), Param(p, "K"))

CurveFallback(p) ==
    [ N_values   |-> linspace(N_low, N_high, count),
      P_values   |-> [i \in 1..count |-> FlatPrice(p)],
      I_values   |-> [i \in 1..count |-> Mul(FlatPrice(p), N_values[i])],
      dI_values  |-> [i \in 1..count |-> Fin(FALSE, 0)],
      d2I_values |-> [i \in 1..count |-> Fin(FALSE, 0)],
      error      |-> TRUE ]

Raises(series) == \E i \in DOMAIN series : series[i].k = "raise"

\* A handler that replaces only the points that raised.
Patched(series, flat) ==
    [i \in DOMAIN series |->
        IF series[i].k = "raise" THEN flat[i] ELSE series[i]]

TryCurvePerPoint(N_v, P_v, I_v, dI_v, d2I_v, fallback) ==
    [ N_values   |-> N_v,
      P_values   |-> Patched(P_v, fallback.P_values),
      I_values   |-> Patched(I_v, fallback.I_values),
      dI_values  |-> Patched(dI_v, fallback.dI_values),
      d2I_values |-> Patched(d2I_v, fallback.d2I_values),
      error      |-> Raises(P_v) \/ Raises(I_v) \/ Raises(dI_v)
                         \/ Raises(d2I_v) ]

\* The four series of the try block in the order of their list
\* comprehensions; the first exception, at any point of any series, leaves
\* all of them to the except branch.
TryCurve(N_v, P_v, I_v, dI_v, d2I_v, fallback) ==
    IF Raises(P_v) THEN fallback
    ELSE IF Raises(I_v) THEN fallback
    ELSE IF Raises(dI_v) THEN fallback
    ELSE IF Raises(d2I_v) THEN fallback
    ELSE [ N_values   |-> N_v,
           P_values   |-> P_v,
           I_values   |-> I_v,
           dI_values  |-> dI_v,
           d2I_values |-> d2I_v,
           error      |-> FALSE ]

\* The try/except of lines 191-204.
CurveValues(p) ==
    TryCurve(N_values,
             [i \in 1..count |-> calculate_price(N_values[i], p)],
             [i \in 1..count |-> calculate_income(N_values[i], p)],
             [i \in 1..count |-> calculate_income_derivative(N_values[i], p)],
             [i \in 1..count |->
                 calculate_income_second_derivative(N_values[i], p)],
             CurveFallback(p))

\* What the run holds after lines 190-204, called with parameters p.
CurveResult(p, c) ==
    [ set        |-> TRUE,
      args       |-> p,
      N_values   |-> c.N_values,
      P_values   |-> c.P_values,
      I_values   |-> c.I_values,
      dI_values  |-> c.dI_values,
      d2I_values |-> c.d2I_values,
      error      |-> c.error ]

\* Lines 190-204 as a whole.
CurveSampling(p) == CurveResult(p, CurveValues(p))

-----------------------------------------------------------------------------
(* The session: PARAM_RANGES, the defaults, the sidebar, the buttons.      *)

\* The float i.ffff in units.
Dec(i, ffff) == i * Scale + ffff

\* Lines 9-18: parameter -> <<min, max>>.
PARAM_RANGES ==
    [ P_min |-> <<Dec(10, 0),   Dec(100, 0)>>,
      K     |-> <<Dec(50, 0),   Dec(300, 0)>>,
      q     |-> <<Dec(0, 100),  Dec(1, 0)>>,
      N0    |-> <<Dec(5, 0),    Dec(50, 0)>>,
      C     |-> <<Dec(0, 0),    Dec(100, 0)>>,
      r     |-> <<Dec(0, 1000), Dec(3, 0)>>,
      N1    |-> <<Dec(20, 0),   Dec(200, 0)>>,
      N     |-> <<Dec(1, 0),    Dec(200, 0)>> ]

\* Lines 21-31: the parameters of a new session.
DefaultParams ==
    [ P_min |-> Dec(20, 0),  K  |-> Dec(100, 0), q  |-> Dec(0, 2000),
      N0    |-> Dec(15, 0),  C  |-> Dec(50, 0),  r  |-> Dec(1, 5000),
      N1    |-> Dec(100, 0), N  |-> Dec(50, 0) ]

\* Lines 314-324: params.update of the first preset button.
Scheme1(p) ==
    [p EXCEPT !.P_min = Dec(25, 0), !.K = Dec(150, 0), !.q = Dec(0, 3000),
              !.N0 = Dec(10, 0), !.C = Dec(30, 0), !.r = Dec(1, 2000),
              !.N1 = Dec(120, 0)]

\* Lines 327-337: params.update of the second preset button.
Scheme2(p) ==
    [p EXCEPT !.P_min = Dec(30, 0), !.K = Dec(120, 0), !.q = Dec(0, 2500),
              !.N0 = Dec(15, 0), !.C = Dec(50, 0), !.r = Dec(1, 5000),
              !.N1 = Dec(100, 0)]

NoEvent == [kind |-> "none"]

\* A number input without min_value and max_value.
number_input_unbounded(min_val, max_val, value, typed) ==
    IF typed.kind = "input" THEN <<TRUE, typed.raw>> ELSE <<TRUE, value>>

\* st.number_input(label, min_value, max_value, value, ...), lines 62-70:
\* <<ok, returned value>>.  Streamlit refuses (raises) a value argument
\* outside [min_value, max_value], and takes what the user typed into this
\* widget only when it lies inside them; otherwise the widget holds value.
number_input(min_val, max_val, value, typed) ==
    IF value < min_val \/ value > max_val THEN <<FALSE, value>>
    ELSE IF typed.kind = "input" /\ typed.raw >= min_val /\ typed.raw <= max_val
    THEN <<TRUE, typed.raw>>
    ELSE <<TRUE, value>>

\* The widget of one parameter in the loop of lines 54-73.
Widget(p, name, ev) ==
    number_input(PARAM_RANGES[name][1], PARAM_RANGES[name][2], p[name],
                 IF ev.kind = "input" /\ ev.name = name THEN ev ELSE NoEvent)

\* Lines 54-73: every parameter is assigned what its widget returns.
SidebarParams(p, ev) == [name \in ParamNames |-> Widget(p, name, ev)[2]]

SidebarOk(p, ev) == \A name \in ParamNames : Widget(p, name, ev)[1]

InRange(p) ==
    \A name \in ParamNames :
        PARAM_RANGES[name][1] <= p[name] /\ p[name] <= PARAM_RANGES[name][2]

-----------------------------------------------------------------------------
(* Bounds and inputs of the model.                                         *)

\* User interactions (UI) resp. repeated calls (engine) in one behaviour.
MaxReruns == 1

\* What a user types into a number input.
RawInputs == {Dec(0, 0), Dec(0, 5000), Dec(30, 0), Dec(1000, 0)}

\* Parameter sets a caller other than the sidebar may hand to the engine:
\* valid ones, and degenerate ones (zero or negative reference populations,
\* zero or negative N, zero or negative exponents).
EngineInputs ==
    { DefaultParams,
      Scheme1(DefaultParams),
      Scheme2(DefaultParams),
      [DefaultParams EXCEPT !.N0 = 0],
      [DefaultParams EXCEPT !.N1 = 0],
      [DefaultParams EXCEPT !.N0 = 0, !.N1 = 0],
      [DefaultParams EXCEPT !.N0 = 0, !.q = 0],
      [DefaultParams EXCEPT !.N0 = 0, !.q = -Dec(0, 2000)],
      [DefaultParams EXCEPT !.N = 0],
      [DefaultParams EXCEPT !.N = -Dec(50, 0)],
      [DefaultParams EXCEPT !.N = -Dec(100, 0), !.r = Dec(1, 0)],
      [DefaultParams EXCEPT !.N = 0, !.r = -Dec(1, 0)],
      [DefaultParams EXCEPT !.N1 = -Dec(100, 0)],
      [DefaultParams EXCEPT !.N1 = -Dec(1, 0), !.r = Dec(1, 0)] }

WarnFilters == {"default", "error"}

-----------------------------------------------------------------------------
(* The script run, as steps.                                               *)

\* A run starts: the script's own variables are new.
StartRun(to) ==
    /\ pc' = to
    /\ result' = NoResult
    /\ curve' = NoCurve

\* The user types raw into the number input of one parameter, or clicks a
\* button: Streamlit runs the script again from the top.
UserInput ==
    /\ pc = "idle"
    /\ reruns < MaxReruns
    /\ \E name \in ParamNames, raw \in RawInputs :
           event' = [kind |-> "input", name |-> name, raw |-> raw]
    /\ reruns' = reruns + 1
    /\ prev' = NoResult
    /\ StartRun("sidebar")
    /\ UNCHANGED <<params, warn_filter>>

UserClick ==
    /\ pc = "idle"
    /\ reruns < MaxReruns
    /\ \E b \in {"recalc", "scheme1", "scheme2"} : event' = [kind |-> b]
    /\ reruns' = reruns + 1
    /\ prev' = [set |-> TRUE, point |-> result, curve |-> curve]
    /\ StartRun("sidebar")
    /\ UNCHANGED <<params, warn_filter>>

\* Lines 50-79: the sidebar loop, then the recalculation button, whose
\* st.experimental_rerun() ends this run and starts the next one.
Sidebar ==
    /\ pc = "sidebar"
    /\ IF ~SidebarOk(params, event)
       THEN /\ pc' = "crashed"
            /\ UNCHANGED <<params, event, prev, result, curve>>
       ELSE /\ params' = SidebarParams(params, event)
            /\ IF event.kind = "recalc"
               THEN /\ event' = NoEvent
                    /\ StartRun("sidebar")
                    /\ UNCHANGED prev
               ELSE /\ pc' = "evaluate"
                    /\ event' = IF event.kind = "input" THEN NoEvent ELSE event
                    /\ UNCHANGED <<prev, result, curve>>
    /\ UNCHANGED <<warn_filter, reruns>>

\* An exception that leaves a try/except block ends the run.
ValueFields ==
    {"current_price", "current_income", "dP_dN", "dI_dN", "d2I_dN2"}

Escaped(values) == \E f \in ValueFields : values[f].k = "raise"

\* Lines 115-138.
Evaluate ==
    /\ pc = "evaluate"
    /\ result' = PointEvaluation(params)
    /\ params' = ParamsAfterEvaluation(params)
    /\ pc' = IF Escaped(result') THEN "crashed" ELSE "sample"
    /\ UNCHANGED <<warn_filter, curve, event, prev, reruns>>

EscapedSeries(c) ==
    Raises(c.P_values) \/ Raises(c.I_values)
        \/ Raises(c.dI_values) \/ Raises(c.d2I_values)

\* Lines 190-204.
SampleCurve ==
    /\ pc = "sample"
    /\ curve' = CurveSampling(params)
    /\ pc' = IF EscapedSeries(curve') THEN "crashed" ELSE "buttons"
    /\ UNCHANGED <<params, warn_filter, result, event, prev, reruns>>

\* Lines 309-337: a preset button that was clicked updates the parameters
\* and reruns the script; otherwise the run ends and the page waits.
Buttons ==
    /\ pc = "buttons"
    /\ IF event.kind \in {"scheme1", "scheme2"}
       THEN /\ params' = IF event.kind = "scheme1" THEN Scheme1(params)
                         ELSE Scheme2(params)
            /\ prev' = NoResult
            /\ StartRun("sidebar")
       ELSE /\ pc' = "idle"
            /\ UNCHANGED <<params, prev, result, curve>>
    /\ event' = NoEvent
    /\ UNCHANGED <<warn_filter, reruns>>

\* A caller of the engine evaluates and samples again, parameters untouched.
CallAgain ==
    /\ pc = "idle"
    /\ reruns < MaxReruns
    /\ reruns' = reruns + 1
    /\ prev' = [set |-> TRUE, point |-> result, curve |-> curve]
    /\ StartRun("evaluate")
    /\ UNCHANGED <<params, warn_filter, event>>

\* A caller of the engine sets N0 to exactly zero between two calls.
ExternalEdit ==
    /\ pc = "idle"
    /\ reruns < MaxReruns
    /\ params.N0 # 0
    /\ params' = [params EXCEPT !.N0 = 0]
    /\ reruns' = reruns + 1
    /\ prev' = NoResult
    /\ StartRun("evaluate")
    /\ UNCHANGED <<warn_filter, event>>

-----------------------------------------------------------------------------
(* Spec: the engine called with any parameter set of EngineInputs.         *)

Init ==
    /\ params \in EngineInputs
    /\ warn_filter \in WarnFilters
    /\ result = NoResult
    /\ curve = NoCurve
    /\ prev = NoResult
    /\ event = NoEvent
    /\ pc = "evaluate"
    /\ reruns = 0

Next == Evaluate \/ SampleCurve \/ Buttons \/ CallAgain \/ ExternalEdit

Spec == Init /\ [][Next]_vars

(* SpecUI: the Streamlit session, parameters set only by lines 21-31, the  *)
(* sidebar and the preset buttons.                                         *)

InitUI ==
    /\ params = DefaultParams
    /\ warn_filter \in WarnFilters
    /\ result = NoResult
    /\ curve = NoCurve
    /\ prev = NoResult
    /\ event = NoEvent
    /\ pc = "sidebar"
    /\ reruns = 0

NextUI == UserInput \/ UserClick \/ Sidebar \/ Evaluate \/ SampleCurve \/ Buttons

SpecUI == InitUI /\ [][NextUI]_vars


-----------------------------------------------------------------------------
(* Properties.                                                             *)

Zero == Fin(FALSE, 0)

\* C1: no exception leaves the point evaluation or the curve sampling: the
\* run never ends in one, what either operation leaves holds no raised
\* value, each run that got past an operation holds its result, and a
\* result computed after an exception is flagged and shows the default
\* price P_min + K.
C1_ExceptionsCaught ==
    /\ pc # "crashed"
    /\ result.set => ~Escaped(result)
    /\ curve.set => ~EscapedSeries(curve)
    /\ pc \in {"sample", "buttons", "idle"} => result.set
    /\ pc \in {"buttons", "idle"} => curve.set
    /\ result.set /\ result.error =>
           result.current_price = FlatPrice(result.args)
    /\ curve.set /\ curve.error =>
           curve.P_values[1] = FlatPrice(curve.args)

\* A run in which both operations raised and both handlers ran.
C1_Witness ==
    /\ pc = "buttons"
    /\ result.set /\ result.error
    /\ curve.set /\ curve.error

\* C2: a point evaluation with N0 = 0 leaves the price P_min + K and the
\* three derivatives 0.
C2_ZeroN0PointFallback ==
    result.set /\ result.args.N0 = 0 =>
        /\ result.current_price =
               Fin(FALSE, result.args.P_min + result.args.K)
        /\ result.dP_dN = Zero
        /\ result.dI_dN = Zero
        /\ result.d2I_dN2 = Zero

\* A point evaluation called with N0 = 0 and a positive amplitude.
C2_Witness ==
    /\ result.set
    /\ result.args.N0 = 0
    /\ result.args.K > 0
    /\ pc = "sample"

\* C3: after a point evaluation with N0 = 0 the stored N0 is 1.0.
C3_N0ResetToOne ==
    result.set /\ result.args.N0 = 0 => params.N0 = Scale

\* C4: with N0 = 0 or N1 = 0 the point evaluation and the curve sampling
\* both leave the flagged default result instead of a quotient by zero.
C4_ZeroDivisorFallback ==
    /\ result.set /\ (result.args.N0 = 0 \/ result.args.N1 = 0) =>
           /\ result.error
           /\ result.current_price = FlatPrice(result.args)
    /\ curve.set /\ (curve.args.N0 = 0 \/ curve.args.N1 = 0) =>
           /\ curve.error
           /\ \A i \in 1..count : curve.P_values[i] = FlatPrice(curve.args)

\* C5: a curve sampling in which any point raised leaves the default curve
\* at every point: price P_min + K, revenue (P_min + K) * n, both
\* derivative series 0.
C5_WholeCurveFallback ==
    curve.set /\ curve.error =>
        \A i \in 1..count :
            /\ curve.P_values[i] = FlatPrice(curve.args)
            /\ curve.I_values[i] =
                   Mul(FlatPrice(curve.args), curve.N_values[i])
            /\ curve.dI_values[i] = Zero
            /\ curve.d2I_values[i] = Zero

\* A sampling that raised at its first point only (N1 = -1, r = 1: the
\* denominator 1 + (n/N1)^r is zero at n = 1).
C5_Witness ==
    /\ curve.set
    /\ curve.error
    /\ curve.args.N1 = -Dec(1, 0)
    /\ calculate_price(N_values[1], curve.args).k = "raise"
    /\ calculate_price(N_values[2], curve.args).k = "fin"

\* C6: the three condition flags are the signs of the derivatives the same
\* evaluation holds: dP/dN < 0, dI/dN > 0, d2I/dN2 < 0.
C6_FlagsAreSigns ==
    result.set =>
        /\ result.cond1 = LtZero(result.dP_dN)
        /\ result.cond2 = GtZero(result.dI_dN)
        /\ result.cond3 = LtZero(result.d2I_dN2)

\* An evaluation after an exception: derivatives 0, no flag set.
C6_Witness ==
    /\ result.set
    /\ result.error
    /\ result.dP_dN = Zero
    /\ ~result.cond1 /\ ~result.cond2 /\ ~result.cond3

\* The largest step of the grid less one unit of the number model.
GridStep == ((N_high - N_low) * Scale) \div (count - 1)

\* C7: every sampled curve has count = 400 points in each of its five
\* series; its populations start at 1, end at 200, increase strictly and
\* are evenly spaced (to one unit of the number model).
C7_Grid ==
    curve.set =>
        /\ DOMAIN curve.N_values = 1..count
        /\ DOMAIN curve.P_values = 1..count
        /\ DOMAIN curve.I_values = 1..count
        /\ DOMAIN curve.dI_values = 1..count
        /\ DOMAIN curve.d2I_values = 1..count
        /\ curve.N_values[1] = Fin(TRUE, N_low * Scale)
        /\ curve.N_values[count] = Fin(TRUE, N_high * Scale)
        /\ \A i \in 1..(count - 1) :
               /\ curve.N_values[i].k = "fin"
               /\ curve.N_values[i].re < curve.N_values[i + 1].re
               /\ curve.N_values[i + 1].re - curve.N_values[i].re
                      \in {GridStep, GridStep + 1}

\* A computed curve over the whole grid.
C7_Witness ==
    /\ curve.set
    /\ ~curve.error
    /\ Len(curve.N_values) = count
    /\ curve.N_values[count].re = N_high * Scale

\* C8: the revenue is the price times the population, at the point and at
\* every sample, computed or default; for parameters in their ranges both
\* are finite numbers.
C8_RevenueIsPriceTimesN ==
    /\ result.set =>
           /\ result.current_income =
                  Mul(result.current_price, Param(result.args, "N"))
           /\ InRange(result.args) => result.current_income.k = "fin"
    /\ curve.set =>
           \A i \in 1..count :
               /\ curve.I_values[i] =
                      Mul(curve.P_values[i], curve.N_values[i])
               /\ InRange(curve.args) => curve.I_values[i].k = "fin"

\* A computed point with a computed curve for parameters in their ranges.
C8_Witness ==
    /\ result.set /\ ~result.error
    /\ curve.set /\ ~curve.error
    /\ InRange(result.args)
    /\ result.current_income.re > 0

C10_ParamsInRange ==
    /\ pc \in {"evaluate", "sample"} => InRange(params)
    /\ result.set =>
           /\ InRange(result.args)
           /\ result.args.N0 >= Dec(5, 0)
           /\ result.args.N1 >= Dec(20, 0)
           /\ result.args.N >= Dec(1, 0)
    /\ curve.set => InRange(curve.args)

\* A run after the user typed an accepted value into a number input.
C10_Witness ==
    /\ result.set
    /\ curve.set
    /\ reruns >= 1
    /\ result.args # DefaultParams
    /\ result.args # Scheme1(DefaultParams)
    /\ result.args # Scheme2(DefaultParams)

=============================================================================
